---- MODULE Spec2Model ----
(***************************************************************************)
(* Real-time transaction-status synchronisation client.                    *)
(*                                                                         *)
(*   - WebSocketService   (src/src/services/websocket.js)                  *)
(*   - AuthProvider       (src/unnamed/part_000, the AuthContext)          *)
(*   - TransactionStatus  (src/src/components/TransactionStatus.jsx)       *)
(*   - the api client     (src/unnamed/part_004, axios interceptors)       *)
(*   - VerifyEmail        (src/unnamed/part_002, handleVerify)             *)
(*                                                                         *)
(* The program is single-threaded and event-driven: every action below is  *)
(* one run-to-completion piece of JavaScript (an event handler, a promise  *)
(* continuation, a React commit with its effects, a transport event        *)
(* handler).  The socket.io-client transport is modelled by what the       *)
(* service relies on: io() always creates a new socket, emit() on a socket *)
(* that is not connected is buffered and flushed when the socket connects, *)
(* socket.disconnect() closes it and stops reconnection.                   *)
(***************************************************************************)
EXTENDS Integers, Sequences, FiniteSets, TLC

\* ---------------------------------------------------------------- bounds
\* users, and session operations (login, updateUser) per behaviour
MaxUsers == 2
MaxOps == 1
\* sockets io() creates and packets a send buffer holds, in the session
\* specification
MaxSockets == 2
MaxBuf == 2
\* the same in the view specification, whose cases need a third socket
ViewSockets == 3
ViewBuf == 3
\* registrations in this.listeners and sockets in the registry specification
MaxReg == 2
RegSockets == 1
\* transaction ids, mounts of the view, requests in flight, status changes
MaxTx == 2
MaxMounts == 1
MaxFetches == 2
MaxVer == 2
\* requests of the api client followed at a time
MaxReqs == 2

\* io() option reconnectionAttempts
ReconnectionAttempts == 10

Users == 1..MaxUsers
TxIds == 1..MaxTx
SockIds ==
  1..(CHOOSE n \in {MaxSockets, ViewSockets, RegSockets} :
        \A m \in {MaxSockets, ViewSockets, RegSockets} : m <= n)
NoUser == 0
NoSocket == 0

VARIABLES
  \* AuthProvider
  user,        \* React state `user` (NoUser = null), by user id
  token,       \* React state `token` (0 = null), by the id of its user
  lsUser,      \* localStorage 'user'
  lsToken,     \* localStorage 'token'
  userDirty,   \* `user` was set to a new object: the [user] effect is due
  tokenDirty,  \* `token` changed: the [token] effect is due
  boundUser,   \* `user` captured by the last run of the [user] effect
  getMe,       \* profile requests in flight: token's user -> count
  ops,         \* session operations performed (bounded by MaxOps)
  \* WebSocketService
  socket,      \* this.socket (NoSocket = null)
  listeners,   \* this.listeners: Map event -> array of callbacks
  nextSock,    \* number of sockets io() has created
  socks,       \* every socket io() has created, by creation order
  \* TransactionStatus
  mounted, inst, viewId, transaction, loading, fetches, announced, backend,
  \* the progress steps of the transaction page
  txStatus,    \* the status of the transaction on the backend
  reached,     \* the last status of statusOrder the transaction had
  shown,       \* transaction.status in the view (NoStatus: transaction is null)
  step,        \* the argument of the last getStepStatus call
  result,      \* what the last getStepStatus call returned
  \* the api client
  reqs,        \* requests: state, config.__retryCount, transmissions, outcome
  loginReqs,   \* login requests in flight that the verification page caused
  \* what the last step did on the transports and in the view
  out,
  \* the bounds of the specification being explored
  lim

authVars == <<user, token, lsUser, lsToken, userDirty, tokenDirty, boundUser, getMe, ops>>
wsVars == <<socket, listeners, nextSock, socks>>
viewVars == <<mounted, inst, viewId, transaction, loading, fetches, announced>>
stepVars == <<txStatus, reached, shown, step, result>>
apiVars == <<reqs, loginReqs>>
vars == <<authVars, wsVars, viewVars, stepVars, apiVars, backend, out, lim>>

\* ------------------------------------------------------- helper operators
RemoveAt(q, i) == [j \in 1..(Len(q) - 1) |-> IF j < i THEN q[j] ELSE q[j + 1]]

\* callbacks.indexOf(callback): first index, 0 when absent
IndexOf(q, x) ==
  IF \E i \in 1..Len(q) : q[i] = x
  THEN CHOOSE i \in 1..Len(q) : q[i] = x /\ \A j \in 1..(i - 1) : q[j] # x
  ELSE 0

RemoveFirst(q, x) == IF IndexOf(q, x) = 0 THEN q ELSE RemoveAt(q, IndexOf(q, x))

\* useState(null) of the view's transaction
NoTransaction == [id |-> 0, ver |-> 0]

\* a socket io() has not created yet
\* (att: the number of the reconnection attempt under way, 0 when none)
NoSock == [st |-> "none", buf |-> <<>>, room |-> {}, cbs |-> <<>>, att |-> 0]

Live(sk) == sk.st \in {"connecting", "connected", "reconnecting"}

TxEvent == "transaction_update"

\* an event name no component of the program subscribes to
OtherEvent == "other_event"

Events == {TxEvent, OtherEvent}

\* the callbacks a Map / an emitter m holds for event e
CallbacksOf(m, e) == IF e \in DOMAIN m THEN m[e] ELSE <<>>

\* m without its entry for e
MapDrop(m, e) == [x \in (DOMAIN m) \ {e} |-> m[x]]

\* ------------------------------------------------------ WebSocketService
\* The service and its sockets as one value, so that a handler's calls
\* (connect(); joinRoom(id)) compose.  out collects what the calls did;
\* ok turns FALSE when a call would exceed a bound of the model.
Chan ==
  [socket |-> socket, listeners |-> listeners, n |-> nextSock, socks |-> socks,
   out |-> <<>>, ok |-> TRUE]

\* One entry of out: what was done (k), on which socket (s), and for a room
\* message its name (ev) and user id (a)
Entry(k, s, ev, a) == [k |-> k, s |-> s, ev |-> ev, a |-> a]

Did(c, k, s, ev, a) == [c EXCEPT !.out = Append(@, Entry(k, s, ev, a))]

\* A connect() without the guard on this.socket?.connected: io() every time
ConnectAlways(c) ==
  IF c.n >= lim.socks THEN [c EXCEPT !.ok = FALSE]
  ELSE LET s == c.n + 1 IN
       Did([c EXCEPT !.socket = s, !.n = s,
                     !.socks[s] = [NoSock EXCEPT !.st = "connecting"]],
           "open", s, "", 0)

\* connect(): returns when this.socket?.connected, else replaces this.socket
\* by a new socket from io() (autoConnect: the handshake starts at once)
Connect(c) ==
  IF c.socket # NoSocket /\ c.socks[c.socket].st = "connected" THEN c
  ELSE IF c.n >= lim.socks THEN [c EXCEPT !.ok = FALSE]
  ELSE LET s == c.n + 1 IN
       Did([c EXCEPT !.socket = s, !.n = s,
                     !.socks[s] = [NoSock EXCEPT !.st = "connecting"]],
           "open", s, "", 0)

\* A disconnect() that only tears down a socket that is connected
DisconnectIfConnected(c) ==
  IF c.socket = NoSocket \/ c.socks[c.socket].st # "connected" THEN c
  ELSE Did([c EXCEPT !.socks[c.socket] = [NoSock EXCEPT !.st = "closed"],
                     !.socket = NoSocket],
           "close", c.socket, "", 0)

\* disconnect(): socket.disconnect() and this.socket = null.  A closed socket
\* sends and delivers nothing any more and is never reopened.
Disconnect(c) ==
  IF c.socket = NoSocket THEN c
  ELSE Did([c EXCEPT !.socks[c.socket] = [NoSock EXCEPT !.st = "closed"],
                     !.socket = NoSocket],
           "close", c.socket, "", 0)

\* The server's bookkeeping of a transmitted 'join' / 'leave'
RoomAfter(room, ev, u) == IF ev = "join" THEN room \cup {u} ELSE room \ {u}

\* An emit that drops the packet when the socket is not connected (what a
\* volatile emit, or a transport without a send buffer, would do)
EmitVolatile(c, s, ev, u) ==
  IF c.socks[s].st = "connected"
  THEN Did([c EXCEPT !.socks[s].room = RoomAfter(@, ev, u)], "send", s, ev, u)
  ELSE c

\* socket.emit(ev, u) on socket s: transmitted when s is connected, kept in
\* the socket's send buffer otherwise
Emit(c, s, ev, u) ==
  IF c.socks[s].st = "connected"
  THEN Did([c EXCEPT !.socks[s].room = RoomAfter(@, ev, u)], "send", s, ev, u)
  ELSE Did([c EXCEPT !.socks[s].buf = Append(@, <<ev, u>>)], "buffer", s, ev, u)

\* joinRoom(userId)
JoinRoom(c, u) == IF c.socket # NoSocket THEN Emit(c, c.socket, "join", u) ELSE c

\* leaveRoom(userId)
LeaveRoom(c, u) == IF c.socket # NoSocket THEN Emit(c, c.socket, "leave", u) ELSE c

ListenersPut(l, e, q) == [x \in (DOMAIN l) \cup {e} |-> IF x = e THEN q ELSE l[x]]

\* on(event, callback): socket.on and the push on this.listeners
OnEvent(c, e, h) ==
  IF c.socket = NoSocket THEN c
  ELSE [c EXCEPT !.socks[c.socket].cbs = ListenersPut(@, e, Append(CallbacksOf(@, e), h)),
                 !.listeners = ListenersPut(@, e, Append(CallbacksOf(@, e), h))]

\* An off() that empties the event's registrations
OffEventAll(c, e, h) ==
  IF c.socket = NoSocket THEN c
  ELSE [c EXCEPT !.socks[c.socket].cbs = MapDrop(@, e),
                 !.listeners = IF e \in DOMAIN @ THEN ListenersPut(@, e, <<>>) ELSE @]

\* An off() that calls socket.off and leaves this.listeners alone
OffEventSocketOnly(c, e, h) ==
  IF c.socket = NoSocket THEN c
  ELSE [c EXCEPT !.socks[c.socket].cbs =
                    IF RemoveFirst(CallbacksOf(@, e), h) = <<>> THEN MapDrop(@, e)
                    ELSE ListenersPut(@, e, RemoveFirst(CallbacksOf(@, e), h))]

\* off(event, callback): socket.off (the emitter drops the first registration
\* of the callback, and the event's entry with its last one) and the splice
\* of its first index in this.listeners
OffEvent(c, e, h) ==
  IF c.socket = NoSocket THEN c
  ELSE [c EXCEPT !.socks[c.socket].cbs =
                    IF RemoveFirst(CallbacksOf(@, e), h) = <<>> THEN MapDrop(@, e)
                    ELSE ListenersPut(@, e, RemoveFirst(CallbacksOf(@, e), h)),
                 !.listeners = IF e \in DOMAIN @
                               THEN ListenersPut(@, e, RemoveFirst(@[e], h))
                               ELSE @]

\* on / off for the one event the components subscribe to
On(c, h) == OnEvent(c, TxEvent, h)

Off(c, h) == OffEvent(c, TxEvent, h)

\* The step's result becomes the next state, within the bounds of the model
SetChan(c) ==
  /\ c.ok
  /\ \A s \in SockIds : Len(c.socks[s].buf) <= lim.buf
  /\ lim' = lim /\ UNCHANGED <<stepVars, apiVars>>
  /\ socket' = c.socket
  /\ listeners' = c.listeners
  /\ nextSock' = c.n
  /\ socks' = c.socks
  /\ out' = c.out

\* ------------------------------------------------------ transport events
RECURSIVE Flush(_, _, _)
\* the socket's send buffer goes out, in order, when the socket connects
Flush(c, s, q) ==
  IF q = <<>> THEN c
  ELSE Flush(Did([c EXCEPT !.socks[s].room = RoomAfter(@, q[1][1], q[1][2])],
                 "flush", s, q[1][1], q[1][2]),
             s, Tail(q))

\* the 'connect' handler: joins the room of the stored user record
OnConnect(c) == IF lsUser # NoUser THEN JoinRoom(c, lsUser) ELSE c

\* A socket's handshake, or one of its reconnection attempts, succeeds:
\* the buffered packets are sent and 'connect' fires.
SocketConnect(s) ==
  /\ socks[s].st \in {"connecting", "reconnecting"}
  /\ LET c0 == Did([Chan EXCEPT !.socks[s].st = "connected", !.socks[s].buf = <<>>,
                                !.socks[s].att = 0],
                   "connect", s, "", 0)
     IN SetChan(OnConnect(Flush(c0, s, socks[s].buf)))
  /\ UNCHANGED <<authVars, viewVars, backend>>

\* The connection of a connected socket is lost: 'disconnect' fires with a
\* reason other than 'io server disconnect' and the socket reconnects by
\* itself (reconnection: true).  The server forgets the connection's rooms.
TransportClose(s) ==
  /\ socks[s].st = "connected"
  /\ SetChan(Did([Chan EXCEPT !.socks[s].st = "reconnecting", !.socks[s].room = {},
                              !.socks[s].att = 1],
                 "lost", s, "", 0))
  /\ UNCHANGED <<authVars, viewVars, backend>>

\* An attempt that is followed by another one whatever its number
ConnectErrorForever(s) ==
  /\ socks[s].st \in {"connecting", "reconnecting"}
  /\ socks[s].att < ReconnectionAttempts + 1
  /\ SetChan(Did([Chan EXCEPT !.socks[s].st = "reconnecting", !.socks[s].att = @ + 1],
                 "retry", s, "", socks[s].att + 1))
  /\ UNCHANGED <<authVars, viewVars, backend>>

\* The handshake of a socket, or one of its reconnection attempts, fails
\* ('connect_error'): the next reconnection attempt is scheduled, unless
\* reconnectionAttempts attempts have failed; then the socket gives up
\* ('reconnect_failed') and stays unconnected.
ConnectError(s) ==
  /\ socks[s].st \in {"connecting", "reconnecting"}
  /\ SetChan(IF socks[s].att < ReconnectionAttempts
             THEN Did([Chan EXCEPT !.socks[s].st = "reconnecting", !.socks[s].att = @ + 1],
                      "retry", s, "", socks[s].att + 1)
             ELSE Did([Chan EXCEPT !.socks[s].st = "failed", !.socks[s].att = 0],
                      "gaveup", s, "", 0))
  /\ UNCHANGED <<authVars, viewVars, backend>>

\* the 'disconnect' handler for reason 'io server disconnect':
\* this.socket.connect(), on the service's current socket
OnServerDisconnect(c, s) ==
  IF c.socket = NoSocket
  THEN Did([c EXCEPT !.socks[s] = [NoSock EXCEPT !.st = "closed"]], "throw", s, "", 0)
  ELSE IF c.socket = s
  THEN Did([c EXCEPT !.socks[s].st = "connecting", !.socks[s].room = {}], "reopen", s, "", 0)
  ELSE Did([c EXCEPT !.socks[s] = [NoSock EXCEPT !.st = "closed"],
                     !.socks[c.socket].st = IF @ = "failed" THEN "connecting" ELSE @],
           "reopen", c.socket, "", 0)

\* The server disconnects a connected socket: the socket does not reconnect
\* by itself, 'disconnect' fires with reason 'io server disconnect'.
ServerDisconnect(s) ==
  /\ socks[s].st = "connected"
  /\ SetChan(OnServerDisconnect(Did(Chan, "kicked", s, "", 0), s))
  /\ UNCHANGED <<authVars, viewVars, backend>>

\* ------------------------------------------------------------ AuthProvider
Clean == ~userDirty /\ ~tokenDirty

Bump(f, x) == [f EXCEPT ![x] = @ + 1]

\* login() / register() succeed (or login() is given the verified data):
\* setUser, setToken and the two localStorage records
Login(u) ==
  /\ Clean /\ ops < MaxOps
  /\ user' = u /\ token' = u /\ lsUser' = u /\ lsToken' = u
  /\ userDirty' = TRUE /\ tokenDirty' = TRUE
  /\ ops' = ops + 1
  /\ out' = <<>> /\ lim' = lim /\ UNCHANGED <<stepVars, apiVars>>
  /\ UNCHANGED <<boundUser, getMe, wsVars, viewVars, backend>>

\* logout(): clears the state and the stored records, then disconnect()
LogoutState(c) ==
  /\ user' = NoUser /\ token' = 0 /\ lsUser' = NoUser /\ lsToken' = 0
  /\ userDirty' = (user # NoUser)
  /\ tokenDirty' = (token # 0)
  /\ SetChan(c)

\* why: the failure of getMe() that made fetchUser call logout(), "" when
\* logout() is called for another reason
LogoutChan(why) == Disconnect(Did(Chan, "logout", socket, why, user))

LogoutBody == LogoutState(LogoutChan(""))

Logout ==
  /\ Clean /\ user # NoUser
  /\ LogoutBody
  /\ UNCHANGED <<boundUser, getMe, ops, viewVars, backend>>

\* updateUser() succeeds: setUser(updatedUser) and the stored user record
UpdateUser ==
  /\ Clean /\ user # NoUser /\ ops < MaxOps
  /\ lsUser' = user
  /\ userDirty' = TRUE
  /\ ops' = ops + 1
  /\ out' = <<>> /\ lim' = lim /\ UNCHANGED <<stepVars, apiVars>>
  /\ UNCHANGED <<user, token, lsToken, tokenDirty, boundUser, getMe, wsVars, viewVars, backend>>

\* fetchUser(): authAPI.getMe() resolves with the profile of the token's user
FetchUserOk(u) ==
  /\ Clean /\ getMe[u] > 0 /\ u # NoUser
  /\ getMe' = [getMe EXCEPT ![u] = @ - 1]
  /\ user' = u /\ lsUser' = u
  /\ userDirty' = TRUE
  /\ out' = <<>> /\ lim' = lim /\ UNCHANGED <<stepVars, apiVars>>
  /\ UNCHANGED <<token, lsToken, tokenDirty, boundUser, ops, wsVars, viewVars, backend>>

\* what the api client rejects a request with: isTimeout, isNetworkError, or
\* the message of an HTTP error response
FailureKinds == {"timeout", "network", "http"}

\* A fetchUser() that logs out on every failure
FetchUserFailLogout(u, kind) ==
  /\ Clean /\ getMe[u] > 0
  /\ getMe' = [getMe EXCEPT ![u] = @ - 1]
  /\ LogoutState(LogoutChan(kind))
  /\ UNCHANGED <<boundUser, ops, viewVars, backend>>

\* fetchUser(): getMe() rejects; logout() unless the error is a timeout or a
\* network error
FetchUserFail(u, kind) ==
  /\ Clean /\ getMe[u] > 0
  /\ getMe' = [getMe EXCEPT ![u] = @ - 1]
  /\ IF kind \notin {"timeout", "network"}
     THEN LogoutState(LogoutChan(kind))
     ELSE /\ out' = <<Entry("getMeFailed", 0, kind, u)>>
          /\ lim' = lim /\ UNCHANGED <<stepVars, apiVars>>
          /\ UNCHANGED <<user, token, lsUser, lsToken, userDirty, tokenDirty, wsVars>>
  /\ UNCHANGED <<boundUser, ops, viewVars, backend>>

\* One React commit of AuthProvider: the cleanup of the [user] effect, then
\* the [token] effect and the [user] effect, each when its dependency changed.
Commit ==
  /\ userDirty \/ tokenDirty
  /\ LET c0 == Did(Chan, "commit", socket, "", user)
         c1 == IF userDirty /\ boundUser # NoUser THEN LeaveRoom(c0, boundUser) ELSE c0
         c2 == IF ~userDirty THEN c1
               ELSE IF user # NoUser THEN JoinRoom(Connect(c1), user)
               ELSE Disconnect(c1)
         reload == tokenDirty /\ lsUser # NoUser
     IN /\ SetChan(c2)
        /\ user' = IF reload THEN lsUser ELSE user
        /\ userDirty' = reload
        /\ tokenDirty' = FALSE
        /\ boundUser' = IF userDirty THEN user ELSE boundUser
        /\ getMe' = IF tokenDirty /\ token # 0 THEN Bump(getMe, lsToken) ELSE getMe
  /\ UNCHANGED <<token, lsUser, lsToken, ops, viewVars, backend>>

\* ------------------------------------------------------------ VerifyEmail
\* handleVerify() after authAPI.verifyEmail resolved with success, a token
\* and the user u: the two localStorage records are written, then
\* authLogin({email, password: ''}, true, response.data) is awaited.  login
\* takes (email, password, skipApiCall, providedData): the call binds the
\* object to email, true to password and response.data to skipApiCall, and
\* leaves providedData null, so `skipApiCall && providedData` is false and
\* login goes on to authAPI.login.
VerifyOk(u) ==
  /\ ops < MaxOps
  /\ ops' = ops + 1
  /\ lsToken' = u /\ lsUser' = u
  /\ loginReqs' = loginReqs + 1
  /\ out' = <<Entry("verify", 0, "", u)>> /\ lim' = lim
  /\ UNCHANGED <<user, token, userDirty, tokenDirty, boundUser, getMe>>
  /\ UNCHANGED <<wsVars, viewVars, stepVars, reqs, backend>>

\* what the server answers to a login whose email is an object and whose
\* password is `true`: 401, or another error
LoginReplies == {"unauthorized", "http"}

\* The login request of handleVerify is rejected.  login() returns
\* {success: false}, which handleVerify ignores.  On a 401 the api client
\* has removed the stored credentials and set window.location.href: the
\* page is loaded anew, which ends the old page's sockets and requests.
VerifyLoginReply(kind) ==
  /\ loginReqs > 0
  /\ out' = <<Entry("verifyReply", 0, kind, 0)>> /\ lim' = lim
  /\ IF kind = "unauthorized"
     THEN /\ lsToken' = 0 /\ lsUser' = NoUser
          /\ user' = NoUser /\ token' = 0
          /\ userDirty' = TRUE /\ tokenDirty' = TRUE
          /\ boundUser' = NoUser
          /\ getMe' = [u \in Users \cup {NoUser} |-> 0]
          /\ loginReqs' = 0
          /\ socket' = NoSocket /\ listeners' = <<>>
          /\ socks' = [s \in SockIds |->
                         IF socks[s].st = "none" THEN NoSock
                         ELSE [NoSock EXCEPT !.st = "closed"]]
          /\ mounted' = FALSE /\ transaction' = NoTransaction /\ loading' = TRUE
          /\ fetches' = <<>> /\ announced' = 0
          /\ UNCHANGED <<ops, nextSock, inst, viewId>>
     ELSE /\ loginReqs' = loginReqs - 1
          /\ UNCHANGED <<authVars, wsVars, viewVars>>
  /\ UNCHANGED <<stepVars, reqs, backend>>

\* ------------------------------------------------------ TransactionStatus
\* A view instance's closure over the route id: the callback it registers
Handler(i, t) == [inst |-> i, id |-> t]

\* fetchTransaction() up to its await: one more request in flight.  The
\* backend answers with the record as it is when the request is made
\* (bk[t], 0: the id is unknown); responses arrive in any order.
FetchTransaction(fs, bk, i, t) == Append(fs, [inst |-> i, id |-> t, res |-> bk[t]])

\* handleTransactionUpdate(data) of the closure h, for data.transactionId = t
HandleTransactionUpdate(fs, bk, h, t) ==
  IF t = h.id THEN FetchTransaction(fs, bk, h.inst, h.id) ELSE fs

\* The view mounts on route id t: initial state, then the effect
Mount(t) ==
  /\ ~mounted /\ inst < MaxMounts /\ Len(fetches) < MaxFetches
  /\ mounted' = TRUE /\ inst' = inst + 1 /\ viewId' = t
  /\ transaction' = NoTransaction /\ loading' = TRUE
  /\ announced' = 0
  /\ fetches' = FetchTransaction(fetches, backend, inst + 1, t)
  /\ SetChan(On(Did(Chan, "mount", 0, "", t), Handler(inst + 1, t)))
  /\ UNCHANGED <<authVars, backend>>

\* The route id changes while the view stays mounted: the effect's cleanup
\* (off of the old closure), then the effect again
Navigate(t) ==
  /\ mounted /\ t # viewId /\ Len(fetches) < MaxFetches
  /\ viewId' = t
  /\ announced' = 0
  /\ fetches' = FetchTransaction(fetches, backend, inst, t)
  /\ SetChan(On(Off(Did(Chan, "navigate", 0, "", t), Handler(inst, viewId)), Handler(inst, t)))
  /\ UNCHANGED <<authVars, mounted, inst, transaction, loading, backend>>

\* The view unmounts: the effect's cleanup
Unmount ==
  /\ mounted
  /\ mounted' = FALSE
  /\ announced' = 0
  /\ SetChan(Off(Did(Chan, "unmount", 0, "", viewId), Handler(inst, viewId)))
  /\ UNCHANGED <<authVars, inst, viewId, transaction, loading, fetches, backend>>

RECURSIVE Dispatch(_, _, _, _)
\* every callback attached to a socket is called, in registration order
Dispatch(fs, bk, q, t) ==
  IF q = <<>> THEN fs
  ELSE Dispatch(HandleTransactionUpdate(fs, bk, q[1], t), bk, Tail(q), t)

\* the sockets the server has in a room: they receive the push events
InRoom == {s \in SockIds : socks[s].st = "connected" /\ socks[s].room # {}}

RECURSIVE Notify(_, _, _, _)
\* a 'transaction_update' event reaches each of the sockets S
Notify(fs, bk, S, t) ==
  IF S = {} THEN fs
  ELSE LET s == CHOOSE x \in S : \A y \in S : x <= y
       IN Notify(Dispatch(fs, bk, CallbacksOf(socks[s].cbs, TxEvent), t), bk, S \ {s}, t)

\* the callbacks an event on the sockets S invokes
Invoked(S) ==
  UNION {{CallbacksOf(socks[s].cbs, TxEvent)[i] :
            i \in 1..Len(CallbacksOf(socks[s].cbs, TxEvent))} : s \in S}

\* The backend moves transaction t to its next canonical status and pushes
\* 'transaction_update' {transactionId: t} to the connections in a room.
\* announced remembers the status the mounted view's current callback was
\* told about.
BackendUpdate(t) ==
  /\ backend[t] >= 1 /\ backend[t] < MaxVer
  /\ backend' = [backend EXCEPT ![t] = @ + 1]
  /\ fetches' = Notify(fetches, backend', InRoom, t)
  /\ Len(fetches') <= MaxFetches
  /\ announced' = IF mounted /\ t = viewId /\ Handler(inst, viewId) \in Invoked(InRoom)
                  THEN backend'[t] ELSE announced
  /\ out' = <<Entry("event", 0, "", t)>> /\ lim' = lim /\ UNCHANGED <<stepVars, apiVars>>
  /\ UNCHANGED <<authVars, wsVars, mounted, inst, viewId, transaction, loading>>

\* fetchTransaction() after its await: setTransaction on success, a toast on
\* failure, setLoading(false) in both.  React drops the state updates of an
\* instance that is no longer mounted.
FetchDone(i) ==
  /\ i \in 1..Len(fetches)
  /\ LET f == fetches[i]
         alive == mounted /\ inst = f.inst
     IN /\ transaction' = IF alive /\ f.res > 0 THEN [id |-> f.id, ver |-> f.res]
                          ELSE transaction
        /\ loading' = IF alive THEN FALSE ELSE loading
        /\ out' = <<Entry(IF alive THEN "setState" ELSE "dropped", 0, "", f.id)>>
        /\ lim' = lim /\ UNCHANGED <<stepVars, apiVars>>
  /\ fetches' = RemoveAt(fetches, i)
  /\ UNCHANGED <<authVars, wsVars, mounted, inst, viewId, announced, backend>>

\* ------------------------------------------------------- the progress steps
\* transaction is null, or no call was made yet
NoStatus == "none"

StatusOrder ==
  <<"pending", "payment_processing", "payment_confirmed", "converting_to_usdt",
    "usdt_sent", "completed">>

\* the keys of the steps the page renders
StepKeys ==
  {"payment_processing", "payment_confirmed", "converting_to_usdt", "usdt_sent",
   "completed"}

\* statusOrder.indexOf(x): from 0, -1 when absent
JsIndexOf(q, x) == IndexOf(q, x) - 1

\* A getStepStatus that compares an active step off by one
GetStepStatusLate(tr, st) ==
  LET currentIndex == JsIndexOf(StatusOrder, tr)
      stepIndex == JsIndexOf(StatusOrder, st)
  IN IF tr = NoStatus THEN "pending"
     ELSE IF tr = "failed"
          THEN IF currentIndex >= stepIndex THEN "failed" ELSE "pending"
     ELSE IF currentIndex >= stepIndex THEN "completed"
     ELSE IF currentIndex + 2 = stepIndex THEN "active"
     ELSE "pending"

\* getStepStatus(step), with tr = transaction.status (NoStatus: no transaction)
GetStepStatus(tr, st) ==
  LET currentIndex == JsIndexOf(StatusOrder, tr)
      stepIndex == JsIndexOf(StatusOrder, st)
  IN IF tr = NoStatus THEN "pending"
     ELSE IF tr = "failed"
          THEN IF currentIndex >= stepIndex THEN "failed" ELSE "pending"
     ELSE IF currentIndex >= stepIndex THEN "completed"
     ELSE IF currentIndex + 1 = stepIndex THEN "active"
     ELSE "pending"

\* The backend moves the transaction to the next status of the pipeline
Advance ==
  /\ JsIndexOf(StatusOrder, txStatus) \in 0..(Len(StatusOrder) - 2)
  /\ txStatus' = StatusOrder[IndexOf(StatusOrder, txStatus) + 1]
  /\ reached' = txStatus'
  /\ out' = <<Entry("advance", 0, "", 0)>> /\ lim' = lim
  /\ UNCHANGED <<authVars, wsVars, viewVars, apiVars, backend, shown, step, result>>

\* The backend marks the transaction failed
Fail ==
  /\ JsIndexOf(StatusOrder, txStatus) \in 0..(Len(StatusOrder) - 2)
  /\ txStatus' = "failed"
  /\ out' = <<Entry("fail", 0, "", 0)>> /\ lim' = lim
  /\ UNCHANGED <<authVars, wsVars, viewVars, apiVars, backend, reached, shown, step, result>>

\* fetchTransaction() resolves: setTransaction(response.data.transaction)
Load ==
  /\ shown # txStatus
  /\ shown' = txStatus
  /\ out' = <<Entry("load", 0, "", 0)>> /\ lim' = lim
  /\ UNCHANGED <<authVars, wsVars, viewVars, apiVars, backend, txStatus, reached, step, result>>

\* The page renders the step k: getStepStatus(step.key)
Render(k) ==
  /\ step' = k
  /\ result' = GetStepStatus(shown, k)
  /\ out' = <<Entry("render", 0, "", 0)>> /\ lim' = lim
  /\ UNCHANGED <<authVars, wsVars, viewVars, apiVars, backend, txStatus, reached, shown>>

\* ------------------------------------------------------------ api client
ReqIds == 1..MaxReqs

\* a request that was not made: st is "idle", "flight" or "done"; retry is
\* config.__retryCount (0: not set); sent counts the transmissions; res is
\* what the caller's promise settled with
NoReq == [st |-> "idle", retry |-> 0, sent |-> 0, res |-> "none"]

\* api.get / api.post / api.put: one request goes out
ApiRequest(r) ==
  /\ reqs[r].st = "idle"
  /\ reqs' = [reqs EXCEPT ![r] = [st |-> "flight", retry |-> 0, sent |-> 1, res |-> "none"]]
  /\ out' = <<Entry("apiRequest", r, "", 0)>> /\ lim' = lim
  /\ UNCHANGED <<authVars, wsVars, viewVars, stepVars, loginReqs, backend>>

\* the response interceptor: the caller gets response.data
ApiResponse(r) ==
  /\ reqs[r].st = "flight"
  /\ reqs' = [reqs EXCEPT ![r].st = "done", ![r].res = "ok"]
  /\ out' = <<Entry("apiResponse", r, "", 0)>> /\ lim' = lim
  /\ UNCHANGED <<authVars, wsVars, viewVars, stepVars, loginReqs, backend>>

\* An error interceptor that retries a timed-out request whatever its
\* __retryCount (the exploration stops it after a third transmission)
ApiTimeoutRetryAlways(r) ==
  /\ reqs[r].st = "flight" /\ reqs[r].sent < 3
  /\ reqs' = [reqs EXCEPT ![r].retry = 1, ![r].sent = @ + 1]
  /\ out' = <<Entry("apiTimeout", r, "", 0)>> /\ lim' = lim
  /\ UNCHANGED <<authVars, wsVars, viewVars, stepVars, loginReqs, backend>>

\* the error interceptor for error.code 'ECONNABORTED': the first timeout of
\* a request sets config.__retryCount and sends the request again with the
\* same config; a timeout of a request whose __retryCount is set is rejected
\* with isTimeout
ApiTimeout(r) ==
  /\ reqs[r].st = "flight"
  /\ reqs' = IF reqs[r].retry = 0
             THEN [reqs EXCEPT ![r].retry = 1, ![r].sent = @ + 1]
             ELSE [reqs EXCEPT ![r].st = "done", ![r].res = "timeout"]
  /\ out' = <<Entry("apiTimeout", r, "", 0)>> /\ lim' = lim
  /\ UNCHANGED <<authVars, wsVars, viewVars, stepVars, loginReqs, backend>>

\* the error interceptor for a network error (isNetworkError) or for an HTTP
\* error response: rejected at once
ApiFailure(r, kind) ==
  /\ reqs[r].st = "flight"
  /\ reqs' = [reqs EXCEPT ![r].st = "done", ![r].res = kind]
  /\ out' = <<Entry("apiFailure", r, "", 0)>> /\ lim' = lim
  /\ UNCHANGED <<authVars, wsVars, viewVars, stepVars, loginReqs, backend>>

\* the caller has its result; the request's slot is free for another one
ApiForget(r) ==
  /\ reqs[r].st = "done"
  /\ reqs' = [reqs EXCEPT ![r] = NoReq]
  /\ out' = <<Entry("apiForget", r, "", 0)>> /\ lim' = lim
  /\ UNCHANGED <<authVars, wsVars, viewVars, stepVars, loginReqs, backend>>

\* ------------------------------------------------------------ the program
\* The page loads with or without stored credentials; nothing has been
\* rendered yet, so both effects of AuthProvider are due.  Transaction 1
\* bk is the backend's record of each transaction id (0: unknown id).
StartWith(bk) ==
  /\ \E u \in Users \cup {NoUser} : lsUser = u /\ lsToken = u
  /\ user = NoUser /\ token = lsToken
  /\ userDirty = TRUE /\ tokenDirty = TRUE
  /\ boundUser = NoUser
  /\ getMe = [u \in Users \cup {NoUser} |-> 0]
  /\ ops = 0
  /\ socket = NoSocket /\ listeners = <<>> /\ nextSock = 0
  /\ socks = [s \in SockIds |-> NoSock]
  /\ mounted = FALSE /\ inst = 0 /\ viewId = 1 /\ transaction = NoTransaction /\ loading = TRUE
  /\ fetches = <<>> /\ announced = 0
  /\ backend = bk
  /\ txStatus = "pending" /\ reached = "pending" /\ shown = NoStatus
  /\ step = NoStatus /\ result = NoStatus
  /\ reqs = [r \in ReqIds |-> NoReq] /\ loginReqs = 0
  /\ out = <<>>

\* Transaction 1 exists on the backend, transaction 2 is an id the backend
\* does not know.
Start == StartWith([t \in TxIds |-> IF t = 1 THEN 1 ELSE 0])

\* The session and the channel: AuthProvider and WebSocketService
Init == Start /\ lim = [socks |-> MaxSockets, buf |-> MaxBuf]

Next ==
  \/ \E u \in Users : Login(u)
  \/ Logout
  \/ UpdateUser
  \/ \E u \in Users : FetchUserOk(u)
  \/ \E u \in Users, kind \in FailureKinds : FetchUserFail(u, kind)
  \/ Commit
  \/ \E s \in SockIds : SocketConnect(s)
  \/ \E s \in SockIds : TransportClose(s)
  \/ \E s \in SockIds : ServerDisconnect(s)

Spec == Init /\ [][Next]_vars

\* The transaction-status view over a session that logs in, loads its
\* profile and connects
InitView == Start /\ lim = [socks |-> ViewSockets, buf |-> ViewBuf]

NextView ==
  \/ \E u \in Users : Login(u)
  \/ \E u \in Users : FetchUserOk(u)
  \/ Commit
  \/ \E s \in SockIds : SocketConnect(s)
  \/ \E t \in TxIds : Mount(t)
  \/ \E t \in TxIds : Navigate(t)
  \/ Unmount
  \/ \E t \in TxIds : BackendUpdate(t)
  \/ \E i \in 1..MaxFetches : FetchDone(i)

SpecView == InitView /\ [][NextView]_vars

\* The channel of a stored session whose handshakes can fail
NextRetry ==
  \/ UpdateUser
  \/ Commit
  \/ \E s \in SockIds : SocketConnect(s)
  \/ \E s \in SockIds : TransportClose(s)
  \/ \E s \in SockIds : ConnectError(s)

SpecRetry == Init /\ [][NextRetry]_vars

\* ------------------------------------------------- the service as an API
\* The calls of WebSocketService in any order, with any event name and any
\* of a few callbacks, on a service without a session.  out records the call,
\* and for on / off the event and the number of callbacks this.listeners
\* held for it before the call.
\* a callback and another one
RegCallbacks == {Handler(1, 1), Handler(2, 1)}

CallConnect ==
  /\ SetChan(Connect(Did(Chan, "callConnect", socket, "", 0)))
  /\ UNCHANGED <<authVars, viewVars, backend>>

CallDisconnect ==
  /\ SetChan(Disconnect(Did(Chan, "callDisconnect", socket, "", 0)))
  /\ UNCHANGED <<authVars, viewVars, backend>>

CallOn(e, h) ==
  /\ Len(CallbacksOf(listeners, TxEvent)) + Len(CallbacksOf(listeners, OtherEvent)) < MaxReg
  /\ SetChan(OnEvent(Did(Chan, "on", socket, e, Len(CallbacksOf(listeners, e))), e, h))
  /\ UNCHANGED <<authVars, viewVars, backend>>

CallOff(e, h) ==
  /\ SetChan(OffEvent(Did(Chan, "off", socket, e, Len(CallbacksOf(listeners, e))), e, h))
  /\ UNCHANGED <<authVars, viewVars, backend>>

InitRegistry ==
  /\ Start /\ lsUser = NoUser
  /\ lim = [socks |-> RegSockets, buf |-> MaxBuf]

NextRegistry ==
  \/ CallConnect
  \/ CallDisconnect
  \/ \E e \in Events, h \in RegCallbacks : CallOn(e, h)
  \/ \E e \in Events, h \in RegCallbacks : CallOff(e, h)
  \/ \E s \in SockIds : SocketConnect(s)

SpecRegistry == InitRegistry /\ [][NextRegistry]_vars

\* The transaction-status view over a session that logs in and out: the
\* view's effect and cleanup interleaved with the connect() and disconnect()
\* calls of AuthProvider
NextCycle ==
  \/ \E u \in Users : Login(u)
  \/ Logout
  \/ Commit
  \/ \E s \in SockIds : SocketConnect(s)
  \/ \E t \in TxIds : Mount(t)
  \/ Unmount
  \/ \E t \in TxIds : BackendUpdate(t)
  \/ \E i \in 1..MaxFetches : FetchDone(i)

SpecCycle == Init /\ [][NextCycle]_vars

\* The progress steps of the page while the transaction moves through the
\* pipeline or fails on the way
NextSteps ==
  \/ Advance
  \/ Fail
  \/ Load
  \/ \E k \in StepKeys : Render(k)

SpecSteps == InitRegistry /\ [][NextSteps]_vars

\* The api client with a few requests at a time, each answered, timed out or
\* failed any number of times
NextApi ==
  \/ \E r \in ReqIds : ApiRequest(r)
  \/ \E r \in ReqIds : ApiResponse(r)
  \/ \E r \in ReqIds : ApiTimeout(r)
  \/ \E r \in ReqIds, kind \in {"network", "http"} : ApiFailure(r, kind)
  \/ \E r \in ReqIds : ApiForget(r)

SpecApi == InitRegistry /\ [][NextApi]_vars

\* The session with the email verification page
NextVerify ==
  \/ \E u \in Users : VerifyOk(u)
  \/ \E kind \in LoginReplies : VerifyLoginReply(kind)
  \/ Logout
  \/ \E u \in Users : FetchUserOk(u)
  \/ Commit
  \/ \E s \in SockIds : SocketConnect(s)

SpecVerify == Init /\ [][NextVerify]_vars

\* The view moving between transactions that all exist, without a session
InitRace ==
  /\ StartWith([t \in TxIds |-> 1]) /\ lsUser = NoUser
  /\ lim = [socks |-> MaxSockets, buf |-> MaxBuf]

NextRace ==
  \/ \E t \in TxIds : Mount(t)
  \/ \E t \in TxIds : Navigate(t)
  \/ Unmount
  \/ \E t \in TxIds : BackendUpdate(t)
  \/ \E i \in 1..MaxFetches : FetchDone(i)

SpecRace == InitRace /\ [][NextRace]_vars

\* ------------------------------------------------------------ properties
\* What a step did, read from out'
StepIs(k) == out' # <<>> /\ out'[1].k = k

\* the requests of the mounted view for the id it displays
InFlight == {i \in 1..Len(fetches) : fetches[i].inst = inst /\ fetches[i].id = viewId}

\* the callbacks of view instance i that an event reaching the sockets S invokes
ViewInvoked(S, i) == {h \in Invoked(S) : h.inst = i}

\* the packets of kind ev for user u that out' records as transmitted on s
Transmitted(s, ev, u) ==
  {i \in 1..Len(out') : /\ out'[i].k \in {"send", "flush"} /\ out'[i].s = s
                        /\ out'[i].ev = ev /\ out'[i].a = u}

\* C1: at most one fetch of the displayed transaction id is in flight: a
\* transaction_update event for that id that reaches the mounted view while
\* its fetch is in flight starts no overlapping fetch (it coalesces into a
\* follow-up), so one fetch is still in flight after the event.
C1_OneFetchInFlight ==
  [][(/\ StepIs("event") /\ mounted /\ out'[1].a = viewId
      /\ Cardinality(InFlight) = 1 /\ ViewInvoked(InRoom, inst) # {})
     => Cardinality(InFlight') <= 1]_vars

\* C2: every transaction_update event delivered to the mounted view starts
\* exactly one fetch of the displayed id when the event names that id, and
\* starts no fetch and leaves the view's state unchanged when it names
\* another id.
C2_EventStartsOneFetch ==
  [][(StepIs("event") /\ mounted /\ ViewInvoked(InRoom, inst) # {}) =>
       IF out'[1].a = viewId
       THEN fetches' = FetchTransaction(fetches, backend', inst, viewId)
       ELSE UNCHANGED <<transaction, loading, fetches>>]_vars

\* C3: once the events for the displayed id have settled (the view was told
\* of the backend's current status and has no fetch in flight), the displayed
\* transaction is the backend's current record, whatever the order in which
\* the responses arrived.
C3_SettledShowsLatest ==
  (/\ mounted /\ announced # 0 /\ announced = backend[viewId]
   /\ \A i \in 1..Len(fetches) : fetches[i].inst # inst)
  => transaction = [id |-> viewId, ver |-> backend[viewId]]

\* C4: once the view has unmounted its state (transaction, loading) is never
\* updated again, and a transaction_update event invokes no handler of it.
C4_NothingAfterUnmount ==
  [][(~mounted /\ ~mounted' /\ inst > 0) =>
       /\ transaction' = transaction /\ loading' = loading
       /\ StepIs("event") => ViewInvoked(InRoom, inst) = {}]_vars

\* C5: at most one socket created by the service is live (connecting,
\* connected or reconnecting) in every reachable state.
C5_OneLiveTransport == Cardinality({s \in SockIds : Live(socks[s])}) <= 1

\* C6: a live socket implies an authenticated user in the auth context; in
\* particular no socket is live after logout().
C6_LiveImpliesUser == (\E s \in SockIds : Live(socks[s])) => user # NoUser

\* C7: when the user goes from present to absent, the service's socket is
\* closed only after a 'leave' for that user was emitted on it.
C7_LeaveBeforeDisconnect ==
  [][(user # NoUser /\ user' = NoUser) =>
       \A i \in 1..Len(out') :
         out'[i].k = "close" =>
           \E j \in 1..(i - 1) : /\ out'[j].k \in {"send", "buffer"}
                                 /\ out'[j].s = out'[i].s
                                 /\ out'[j].ev = "leave" /\ out'[j].a = user]_vars

\* C8: each (re)connection of a socket while a user is bound transmits
\* exactly one 'join' for that user on it.
C8_OneJoinPerConnection ==
  [][(StepIs("connect") /\ user # NoUser) =>
       Cardinality(Transmitted(out'[1].s, "join", user)) = 1]_vars

\* C9: each (re)connection of a socket while a user is authenticated
\* transmits a 'join' for that user on the socket that connected.
C9_JoinOnReconnected ==
  [][(StepIs("connect") /\ user # NoUser) =>
       Transmitted(out'[1].s, "join", user) # {}]_vars

\* C10: a joinRoom(userId) made while the service's socket is not connected
\* is not lost: the [user] effect's join is sent or put in the send buffer of
\* the service's socket, a buffered join stays in the buffer for as long as
\* the socket is neither connected nor closed, and every buffered join is
\* transmitted when the socket connects.
C10_JoinDeferred ==
  [][/\ (StepIs("commit") /\ userDirty /\ user # NoUser) =>
          /\ out'[Len(out')] = Entry(IF socks'[socket'].st = "connected"
                                     THEN "send" ELSE "buffer", socket', "join", user)
          /\ socks'[socket'].st # "connected" =>
               socks'[socket'].buf[Len(socks'[socket'].buf)] = <<"join", user>>
     /\ \A s \in SockIds :
          /\ (socks[s].st \in {"connecting", "reconnecting"} /\ socks'[s].st = socks[s].st) =>
               /\ Len(socks'[s].buf) >= Len(socks[s].buf)
               /\ SubSeq(socks'[s].buf, 1, Len(socks[s].buf)) = socks[s].buf
          /\ (StepIs("connect") /\ out'[1].s = s) =>
               \A i \in 1..Len(socks[s].buf) :
                 socks[s].buf[i][1] = "join" =>
                   out'[1 + i] = Entry("flush", s, "join", socks[s].buf[i][2])]_vars

\* a socket has just connected and transmitted a join it had buffered
C10_Witness ==
  /\ out # <<>> /\ out[1].k = "connect"
  /\ \E i \in 1..Len(out) : out[i].k = "flush" /\ out[i].ev = "join"

\* is the service's socket connected (this.socket?.connected)
Connected == socket # NoSocket /\ socks[socket].st = "connected"

\* C11: connect() on a service whose socket is connected is a no-op: the
\* call returns the service as it was, and the [user] effect that makes the
\* call on a connected socket creates no socket (the only place transport
\* handlers are attached), keeps this.socket and the listener registry, and
\* changes no socket except for the rooms of the current one.
C11_ConnectIdempotent ==
  [][(StepIs("commit") /\ userDirty /\ user # NoUser /\ Connected) =>
       /\ Connect(Chan) = Chan
       /\ socket' = socket /\ nextSock' = nextSock /\ listeners' = listeners
       /\ \A i \in 1..Len(out') : out'[i].k # "open"
       /\ \A s \in SockIds :
            /\ socks'[s].st = socks[s].st /\ socks'[s].cbs = socks[s].cbs
            /\ socks'[s].buf = socks[s].buf
            /\ s # socket => socks'[s] = socks[s]]_vars

\* the [user] effect has just run connect() on a connected socket: its join
\* went out at once on the socket that was there before
C11_Witness ==
  /\ out # <<>> /\ out[1].k = "commit" /\ out[1].s = socket /\ socket # NoSocket
  /\ out[Len(out)] = Entry("send", socket, "join", user)

\* C12: disconnect() tears down the service's socket whatever its connection
\* state and clears its rooms: logout(), which calls it, closes this.socket
\* and leaves this.socket = null; every socket a step closes ends closed, in
\* no room.  disconnect() on a service without a socket changes nothing:
\* the [user] effect that calls it after logout leaves the service as it
\* was, and disconnect; disconnect equals disconnect in every state.
C12_DisconnectIdempotent ==
  [][/\ Disconnect(Disconnect(Chan)) = Disconnect(Chan)
     /\ socket = NoSocket => Disconnect(Chan) = Chan
     /\ (StepIs("logout") /\ socket # NoSocket) =>
          /\ out' = <<out'[1], Entry("close", socket, "", 0)>>
          /\ socket' = NoSocket
     /\ \A i \in 1..Len(out') :
          out'[i].k = "close" =>
            /\ socks'[out'[i].s].st = "closed" /\ socks'[out'[i].s].room = {}
            /\ \A s \in SockIds \ {out'[i].s} : socks'[s] = socks[s]
     /\ (StepIs("commit") /\ userDirty /\ user = NoUser /\ socket = NoSocket) =>
          UNCHANGED wsVars]_vars

\* logout() has closed the service's socket and the [user] effect has then
\* called disconnect() again
C12_Witness ==
  /\ out = <<Entry("commit", NoSocket, "", NoUser)>>
  /\ boundUser = NoUser /\ socket = NoSocket
  /\ \E s \in SockIds : socks[s].st = "closed"

\* a handshake or reconnection attempt of socket s has just failed
FailedAttempt(s) == out' # <<>> /\ out'[1].k \in {"retry", "gaveup"} /\ out'[1].s = s

C14_ServerDisconnectReconnects ==
  [][/\ StepIs("kicked") => socks'[out'[1].s].st = "connecting"
     /\ \A i \in 1..Len(out') :
          out'[i].k = "close" => socks'[out'[i].s].st = "closed"]_vars

\* the registrations in q of callbacks other than h, in order
Others(q, h) == SelectSeq(q, LAMBDA x : x # h)

\* how many times h is registered in q
Times(q, h) == Cardinality({i \in 1..Len(q) : q[i] = h})

C16_OnThenOff ==
  \A e \in Events, h \in RegCallbacks :
    LET c == OffEvent(OnEvent(Chan, e, h), e, h)
        was == CallbacksOf(listeners, e)
        now == CallbacksOf(c.listeners, e)
    IN /\ Len(now) = Len(was)
       /\ \A g \in RegCallbacks : Times(now, g) = Times(was, g)
       /\ was = <<>> => now = <<>>
       /\ \A e2 \in Events \ {e} :
            CallbacksOf(c.listeners, e2) = CallbacksOf(listeners, e2)
       /\ c.socket = socket /\ c.ok
       /\ \A s \in SockIds :
            \A e2 \in Events, g \in RegCallbacks :
              Times(CallbacksOf(c.socks[s].cbs, e2), g) = Times(CallbacksOf(socks[s].cbs, e2), g)
       /\ (/\ Times(was, h) = 0
           /\ socket # NoSocket => Times(CallbacksOf(socks[socket].cbs, e), h) = 0)
          => OffEvent(Chan, e, h) = Chan

\* on() registered the first callback of an event and off() has just removed
\* it again
C16_Witness ==
  /\ out # <<>> /\ out[1].k = "off" /\ out[1].a = 1 /\ socket # NoSocket
  /\ CallbacksOf(listeners, out[1].ev) = <<>>
  /\ CallbacksOf(socks[socket].cbs, out[1].ev) = <<>>

\* C17: the view is the only caller of on(): whenever it is not mounted,
\* this.listeners holds no callback for 'transaction_update', which is to
\* say that each unmount brings the number of callbacks back to what it was
\* before the mount.
C17_NoAccumulation ==
  ~mounted => CallbacksOf(listeners, TxEvent) = <<>>

\* C18: the step of logout() leaves this.listeners without a callback for
\* any event, and no socket that the server still has in a room carries a
\* callback an event would invoke.
C18_NothingAfterLogout ==
  [][StepIs("logout") =>
       /\ \A e \in Events : CallbacksOf(listeners', e) = <<>>
       /\ \A s \in SockIds :
            socks'[s].st = "connected" /\ socks'[s].room # {}
              => CallbacksOf(socks'[s].cbs, TxEvent) = <<>>]_vars

\* the place of a status in pending < payment_processing < payment_confirmed
\* < converting_to_usdt < usdt_sent < completed
Order(x) == CHOOSE i \in 0..5 : StatusOrder[i + 1] = x

\* the last step was a getStepStatus call: step and result are its
Rendered == out # <<>> /\ out[1].k = "render"

\* C19: for a transaction in one of the six statuses of the pipeline,
\* getStepStatus of each of the five steps is 'completed' when the step's
\* order is at most the status's, 'active' when it is the status's order
\* plus one, and 'pending' otherwise.
C19_StepStatus ==
  Rendered /\ shown \in {StatusOrder[i] : i \in 1..Len(StatusOrder)}
    => result = IF Order(step) <= Order(shown) THEN "completed"
                ELSE IF Order(step) = Order(shown) + 1 THEN "active"
                ELSE "pending"

\* a step after the active one and a step before it exist: the call returned
\* 'active' for converting_to_usdt
C19_Witness ==
  /\ Rendered /\ shown = "payment_confirmed"
  /\ step = "converting_to_usdt" /\ result = "active"

\* C20: for a transaction that failed after it reached X, getStepStatus is
\* 'failed' for the steps of order at most X's and 'pending' for the later
\* ones; all five are 'pending' when it failed while still 'pending'.
C20_FailedSteps ==
  Rendered /\ shown = "failed"
    => result = IF Order(step) <= Order(reached) THEN "failed" ELSE "pending"

\* C21: a commit in which the [user] effect passes from one user to a
\* different one emits 'leave' for the old id and then 'join' for the new
\* id, both on one transport.
C21_LeaveThenJoin ==
  [][(/\ StepIs("commit") /\ userDirty
      /\ boundUser # NoUser /\ user # NoUser /\ boundUser # user)
     => \E i, j \in 1..Len(out') :
          /\ i < j /\ out'[i].s = out'[j].s
          /\ out'[i].k \in {"send", "buffer"} /\ out'[i].ev = "leave" /\ out'[i].a = boundUser
          /\ out'[j].k \in {"send", "buffer"} /\ out'[j].ev = "join" /\ out'[j].a = user]_vars

\* C22: no step of the service or of a transport-event handler raises an
\* exception: the 'disconnect' handler never dereferences a null this.socket.
C22_NoException ==
  [][\A i \in 1..Len(out') : out'[i].k # "throw"]_vars

\* C23: when the fetch of the displayed id completes for the mounted view
\* and the backend does not know the id, the view is in its 'Transaction not
\* found' state (not loading, no transaction) and no fetch was started.
C23_NotFound ==
  [][(StepIs("setState") /\ out'[1].a = viewId /\ backend[viewId] = 0)
     => /\ transaction' = NoTransaction /\ ~loading'
        /\ Len(fetches') = Len(fetches) - 1]_vars

\* C24: a request is transmitted at most twice; its first timeout sends it
\* again, a timeout of the retried request settles it with isTimeout and
\* sends nothing; a network error or an HTTP error response settles the
\* request at once and sends nothing.
C24_OneRetry ==
  [][\A r \in ReqIds :
       /\ reqs'[r].sent <= 2
       /\ (StepIs("apiTimeout") /\ out'[1].s = r) =>
            IF reqs[r].sent = 1
            THEN reqs'[r].st = "flight" /\ reqs'[r].sent = 2
            ELSE reqs'[r].st = "done" /\ reqs'[r].res = "timeout" /\ reqs'[r].sent = 2
       /\ (StepIs("apiFailure") /\ out'[1].s = r) =>
            /\ reqs'[r].st = "done" /\ reqs'[r].res \in {"network", "http"}
            /\ reqs'[r].sent = reqs[r].sent]_vars

\* a request timed out twice and its caller got the timeout error, while
\* another request failed on its first transmission
C24_Witness ==
  \E r, q \in ReqIds :
    /\ reqs[r].st = "done" /\ reqs[r].res = "timeout" /\ reqs[r].sent = 2
    /\ reqs[q].st = "done" /\ reqs[q].res \in {"network", "http"} /\ reqs[q].sent = 1

\* the kinds of failure of the profile requests that settled in the step
GetMeFailure ==
  {out'[i].ev : i \in {j \in 1..Len(out') :
                         \/ out'[j].k = "getMeFailed"
                         \/ out'[j].k = "logout" /\ out'[j].ev # ""}}

C26_VerifiedLogin ==
  [][/\ StepIs("verify") =>
          /\ user' = out'[1].a /\ token' = out'[1].a
          /\ lsUser' = out'[1].a /\ lsToken' = out'[1].a
          /\ loginReqs' = loginReqs
     /\ StepIs("verifyReply") => UNCHANGED <<lsUser, lsToken>>]_vars

\* C27: the view's effect registers its callback whatever the state of the
\* connection, and an event delivered on the service's socket once it is
\* connected and in a room invokes the mounted view's callback.
C27_SubscribeBeforeConnect ==
  [][/\ StepIs("mount") =>
          Handler(inst', viewId') \in
            {CallbacksOf(listeners', TxEvent)[i] :
               i \in 1..Len(CallbacksOf(listeners', TxEvent))}
     /\ (StepIs("event") /\ mounted /\ socket \in InRoom) =>
          Handler(inst, viewId) \in Invoked({socket})]_vars

\* C28: while the service has a socket, the callbacks this.listeners records
\* for an event are the callbacks attached to that socket for the event, in
\* the same order.
C28_RegistryIsSocket ==
  socket # NoSocket =>
    \A e \in Events : CallbacksOf(listeners, e) = CallbacksOf(socks[socket].cbs, e)

\* logout() has run and no login has succeeded since (or nobody ever logged in)
LoggedOut == user = NoUser /\ token = 0 /\ lsUser = NoUser /\ lsToken = 0

\* C29: from a logged-out session, every step other than a login or a
\* registration that succeeds leaves the user null and the stored user
\* record removed and opens no socket; the completion of a profile request
\* that was in flight at the logout is such a step.
C29_LoggedOutStays ==
  [][(LoggedOut /\ ops' = ops)
     => user' = NoUser /\ lsUser' = NoUser /\ nextSock' = nextSock]_vars

\* C30: when no fetch of the mounted view is in flight any more, the
\* displayed transaction is the record of the route's current id, in
\* whatever order the responses arrived.
C30_LateResponse ==
  (mounted /\ \A i \in 1..Len(fetches) : fetches[i].inst # inst)
    => transaction.id = viewId

====
